---- MODULE Spec2Model ----
(***************************************************************************)
(* The job queue of the Home page (src/pages/Home.tsx): the list `items`,  *)
(* the `isProcessing` flag, the queue-processing effect, the manual        *)
(* single-job trigger, deletion, and the generateSpeech calls in flight.   *)
(*                                                                         *)
(* Granularity.  One step of the model is one state update applied by      *)
(* React (one setItems / setIsProcessing updater), or one run of the       *)
(* queue-processing effect.  The effect has the dependency list            *)
(* [items, isProcessing]: it is run once after every commit in which       *)
(* either changed, before any later event or promise continuation is       *)
(* handled.  `effectDue` says that such a run is outstanding.              *)
(***************************************************************************)
EXTENDS Integers, Sequences, FiniteSets, Bags, TLC

\* ---------------------------------------------------------------- bounds
MaxJobs == 2        \* jobs ever enqueued (ids 1..MaxJobs, in submission order)
MaxManual == 2      \* manual triggers (handleGenerateSingle calls) in a run
MaxUrls == 2        \* object URLs ever created
MaxPcm == 3         \* bytes of PCM data handed to pcmToWav
MaxKeys == 2        \* API keys the user ever inserts
MaxCalls == 1       \* Settings handlers awaiting a request at the same time
MaxPieces == 2      \* pieces joined into a stored error message

\* ------------------------------------------------------------- constants
NoUrl == 0          \* AudioItem.audioUrl is undefined
NoError == "undefined"                     \* AudioItem.error is undefined
NoKey == "null"                            \* userApiKey === null
TheKey == "key"                            \* a loaded API key
NoInstruction == <<"undefined">>           \* AudioItem.systemInstruction is undefined
NoItem == [id |-> 0, text |-> <<>>, label |-> <<>>,
           systemInstruction |-> NoInstruction, createdAt |-> 0,
           voice |-> "none", model |-> "none",
           status |-> "NONE", audioUrl |-> NoUrl, error |-> NoError]
NoCall == [id |-> 0, src |-> "none", item |-> NoItem]
JobIds == 1..MaxJobs
WavIdle == [pc |-> "idle"]                 \* no pcmToWav call is traced
PromptIdle == [pc |-> "idle"]              \* no form submission is traced
KeysIdle == [pc |-> "idle"]                \* the api_keys table is not traced
ViewIdle == [pc |-> "idle"]                \* no HistoryItem is traced

ItemStatus == {"PENDING", "GENERATING", "SUCCESS", "ERROR"}

\* GEMINI_VOICES ids and MODELS ids the form can select
Voices == {"Kore", "Puck"}
Models == {"gemini-2.5-flash-preview-tts", "gemini-2.5-pro-preview-tts"}

\* A string is the sequence of its characters.
\* what the user can have typed and selected when Add to Queue runs: blank or
\* padded text, a typed label and style (PromptForms has the other cases)
QueueForms ==
    {[text |-> t, label |-> <<"x", " ">>, systemInstruction |-> <<" ", "c", " ">>,
      selectedVoice |-> "Kore", selectedModel |-> "gemini-2.5-flash-preview-tts"] :
        t \in {<<" ">>, <<" ", "h", "i", " ">>}}

\* errorMessage values the catch block of generateSpeech can hold
RawErrors == {"", "RESOURCE_EXHAUSTED"}

VARIABLES
    items,          \* useState<AudioItem[]>: newest first
    isProcessing,   \* useState(false)
    userApiKey,     \* useState<string | null>(null)
    inflight,       \* bag of generateSpeech calls awaited: [id, src, item]
    thrown,         \* a call whose try block threw before the await, catch pending
    effectDue,      \* the queue-processing effect is scheduled to run
    nextId,         \* next crypto.randomUUID(), in submission order
    revokeCount,    \* revokeCount[u]: URL.revokeObjectURL calls on object URL u
    manualCount,    \* history: handleGenerateSingle invocations so far
    lastOp,         \* history: the last operation, its job id and closure item
    mounted,        \* the Home component is mounted
    wav,            \* a pcmToWav call: its arguments and the bytes it returns
    prompt,         \* a form submission followed through to its request
    keys,           \* the api_keys table and the Settings page working on it
    view            \* a HistoryItem rendering the error of its item

vars == <<items, isProcessing, userApiKey, inflight, thrown, effectDue,
          nextId, revokeCount, manualCount, lastOp, mounted, wav, prompt,
          keys, view>>

\* the state of the Home page and its job queue
queueVars == <<items, isProcessing, userApiKey, inflight, thrown, effectDue,
               nextId, revokeCount, manualCount, lastOp, mounted>>

\* ---------------------------------------------------------------- helpers
\* characters String.prototype.trim removes
Whitespace == {" ", "\n"}

\* str.trim()
Trim(str) ==
    LET RECURSIVE TrimStart(_)
        TrimStart(s) == IF s # <<>> /\ Head(s) \in Whitespace
                        THEN TrimStart(Tail(s)) ELSE s
        RECURSIVE TrimEnd(_)
        TrimEnd(s) == IF s # <<>> /\ s[Len(s)] \in Whitespace
                      THEN TrimEnd(SubSeq(s, 1, Len(s) - 1)) ELSE s
    IN TrimEnd(TrimStart(str))

\* a blank test on the raw text: !text
IsBlankUntrimmed(str) == str = <<>>

\* !text.trim()
IsBlank(str) == Trim(str) = <<>>

\* n.toString().padStart(2, '0'), for n below 100
PadStart2(n) ==
    IF n < 10 THEN <<"0", ToString(n)>>
    ELSE <<ToString(n \div 10), ToString(n % 10)>>

\* the newItem of handleAddToQueue for the form, with crypto.randomUUID() = id
\* and Date.now() = now, when the list holds len items
NewItem(form, id, now, len) ==
    [id |-> id,
     text |-> Trim(form.text),
     label |-> IF Trim(form.label) # <<>> THEN Trim(form.label)
               ELSE PadStart2(len + 1),
     systemInstruction |-> IF Trim(form.systemInstruction) # <<>>
                           THEN Trim(form.systemInstruction) ELSE NoInstruction,
     createdAt |-> now,
     voice |-> form.selectedVoice,
     model |-> form.selectedModel,
     status |-> "PENDING", audioUrl |-> NoUrl, error |-> NoError]

Ids(its) == {its[k].id : k \in DOMAIN its}

ItemOf(its, id) == its[CHOOSE k \in DOMAIN its : its[k].id = id]

\* a processor that retries failed jobs: the first PENDING or ERROR item
FindPendingOrError(its) ==
    IF \E k \in DOMAIN its : its[k].status \in {"PENDING", "ERROR"}
    THEN CHOOSE k \in DOMAIN its :
            /\ its[k].status \in {"PENDING", "ERROR"}
            /\ \A m \in 1..(k - 1) : its[m].status \notin {"PENDING", "ERROR"}
    ELSE 0

\* items.find(i => i.status === 'PENDING'): index of the first one, 0 if none
FindPending(its) ==
    IF \E k \in DOMAIN its : its[k].status = "PENDING"
    THEN CHOOSE k \in DOMAIN its :
            /\ its[k].status = "PENDING"
            /\ \A m \in 1..(k - 1) : its[m].status # "PENDING"
    ELSE 0

\* an update that rebuilds the item without spreading the previous one
SetGeneratingNoSpread(its, id) ==
    [k \in DOMAIN its |->
        IF its[k].id = id
        THEN [NoItem EXCEPT !.id = id, !.text = its[k].text,
                            !.status = "GENERATING"]
        ELSE its[k]]

\* prev.map(i => i.id === id ? { ...i, status: 'GENERATING' } : i)
SetGenerating(its, id) ==
    [k \in DOMAIN its |->
        IF its[k].id = id THEN [its[k] EXCEPT !.status = "GENERATING"] ELSE its[k]]

\* a completion that inserts the job when the list no longer holds it
SetSuccessUpsert(its, id, url) ==
    IF \E k \in DOMAIN its : its[k].id = id
    THEN [k \in DOMAIN its |->
            IF its[k].id = id
            THEN [its[k] EXCEPT !.status = "SUCCESS", !.audioUrl = url]
            ELSE its[k]]
    ELSE <<[NoItem EXCEPT !.id = id, !.status = "SUCCESS",
                           !.audioUrl = url]>> \o its

\* prev.map(i => i.id === id ? { ...i, status: 'SUCCESS', audioUrl: url } : i)
SetSuccess(its, id, url) ==
    [k \in DOMAIN its |->
        IF its[k].id = id
        THEN [its[k] EXCEPT !.status = "SUCCESS", !.audioUrl = url]
        ELSE its[k]]

\* a failure update that stores the message and leaves the status
SetErrorKeepsStatus(its, id, msg) ==
    [k \in DOMAIN its |->
        IF its[k].id = id THEN [its[k] EXCEPT !.error = msg] ELSE its[k]]

\* prev.map(i => i.id === id ? { ...i, status: 'ERROR', error: msg } : i)
SetError(its, id, msg) ==
    [k \in DOMAIN its |->
        IF its[k].id = id
        THEN [its[k] EXCEPT !.status = "ERROR", !.error = msg]
        ELSE its[k]]

\* prev.filter(i => i.id !== id)
RemoveItem(its, id) == SelectSeq(its, LAMBDA i : i.id # id)

\* err.message stored without the fallback
OrDefaultDropped(msg, fallback) == msg

\* err.message || fallback
OrDefault(msg, fallback) == IF msg = "" THEN fallback ELSE msg

\* errorMessage.includes(token), for the messages of RawErrors
Includes(msg, token) ==
    \/ token = "404" /\ msg = "404 NOT_FOUND"
    \/ token = "RESOURCE_EXHAUSTED" /\ msg = "RESOURCE_EXHAUSTED"

\* the message of the Error the catch block of generateSpeech rethrows
GenerateSpeechError(raw) ==
    IF Includes(raw, "404") THEN "Model not found (404)"
    ELSE IF Includes(raw, "modality") \/ Includes(raw, "AUDIO")
         THEN "The model does not support Audio generation"
    ELSE IF Includes(raw, "500") \/ Includes(raw, "503")
         THEN "Google API Service Error. Please try again later."
    ELSE raw

\* the fallback message of the catch block of each trigger path
Fallback(src) == IF src = "auto" THEN "Failed to generate" ELSE "Failed"

\* number of object URLs created so far
UrlsCreated == Len(revokeCount)

\* no effect run and no catch block is outstanding: events can be handled
Quiescent == mounted /\ ~effectDue /\ thrown = NoCall

\* number of items whose status is PENDING (pendingCount)
PendingCount == Cardinality({k \in DOMAIN items : items[k].status = "PENDING"})

\* a delete that forgets URL.revokeObjectURL
RevokeForgotten(rc, url) == rc

\* URL.revokeObjectURL(url)
Revoke(rc, url) == [rc EXCEPT ![url] = @ + 1]

\* history record of an operation on job `item.id`, by trigger path `src`,
\* with the item as the operation's closure saw it
Op(name, src, item) == [op |-> name, id |-> item.id, src |-> src, item |-> item]

\* ------------------------------------------------------------------- Init
QueueInit ==
    /\ items = <<>>
    /\ isProcessing = FALSE
    /\ userApiKey = NoKey
    /\ inflight = EmptyBag
    /\ thrown = NoCall
    /\ effectDue = FALSE
    /\ nextId = 1
    /\ revokeCount = <<>>
    /\ manualCount = 0
    /\ lastOp = Op("init", "none", NoItem)
    /\ mounted = TRUE

\* the Home page after its first render; no encoder call, no submission traced
Init ==
    /\ QueueInit
    /\ wav = WavIdle
    /\ prompt = PromptIdle
    /\ keys = KeysIdle
    /\ view = ViewIdle

\* ---------------------------------------------------------------- actions
\* loadApiKey: getActiveApiKey() resolved with a key
LoadApiKey ==
    /\ Quiescent
    /\ userApiKey = NoKey
    /\ userApiKey' = TheKey
    /\ lastOp' = Op("loadApiKey", "none", NoItem)
    /\ UNCHANGED <<items, isProcessing, inflight, thrown, effectDue, nextId,
                   revokeCount, manualCount>>
    /\ UNCHANGED <<mounted, wav, prompt, keys, view>>

\* handleAddToQueue with the form as typed: returns at once on blank text,
\* else prepends the new item (Date.now() read as the submission count)
HandleAddToQueue(form) ==
    /\ Quiescent
    /\ IF IsBlank(form.text)
       THEN /\ lastOp' = Op("addBlank", "none", NoItem)
            /\ UNCHANGED <<items, nextId, effectDue>>
       ELSE /\ nextId <= MaxJobs
            /\ LET newItem == NewItem(form, nextId, nextId, Len(items))
               IN /\ items' = <<newItem>> \o items
                  /\ lastOp' = Op("add", "none", newItem)
            /\ nextId' = nextId + 1
            /\ effectDue' = TRUE
    /\ UNCHANGED <<isProcessing, userApiKey, inflight, thrown, revokeCount,
                   manualCount>>
    /\ UNCHANGED <<mounted, wav, prompt, keys, view>>

\* startQueue: setIsProcessing(true); the effect is scheduled when the value
\* of isProcessing changed
StartQueue ==
    /\ Quiescent
    /\ isProcessing' = TRUE
    /\ effectDue' = ~isProcessing
    /\ lastOp' = Op("startQueue", "none", NoItem)
    /\ UNCHANGED <<items, userApiKey, inflight, thrown, nextId, revokeCount,
                   manualCount>>
    /\ UNCHANGED <<mounted, wav, prompt, keys, view>>

\* a try block that calls generateSpeech without looking at userApiKey
StartCallUnchecked(src, item) ==
    /\ inflight' = inflight (+) SetToBag({[id |-> item.id, src |-> src,
                                           item |-> item]})
    /\ UNCHANGED thrown

\* the part of a trigger after setItems(... 'GENERATING'): the try block up
\* to the await, for the closure item `item` on path `src`
StartCall(src, item) ==
    LET call == [id |-> item.id, src |-> src, item |-> item]
    IN IF userApiKey = NoKey
       THEN /\ thrown' = call
            /\ UNCHANGED inflight
       ELSE /\ inflight' = inflight (+) SetToBag({call})
            /\ UNCHANGED thrown

\* effect run while isProcessing is false
EffectIdle ==
    /\ effectDue /\ thrown = NoCall
    /\ ~isProcessing
    /\ effectDue' = FALSE
    /\ lastOp' = Op("effectIdle", "none", NoItem)
    /\ UNCHANGED <<items, isProcessing, userApiKey, inflight, thrown, nextId,
                   revokeCount, manualCount>>
    /\ UNCHANGED <<mounted, wav, prompt, keys, view>>

\* a processQueue that returns on an empty queue without clearing the flag
EffectDrainedFlagKept ==
    /\ effectDue /\ thrown = NoCall
    /\ isProcessing
    /\ FindPending(items) = 0
    /\ effectDue' = FALSE
    /\ lastOp' = Op("clearFlag", "none", NoItem)
    /\ UNCHANGED <<items, isProcessing, userApiKey, inflight, thrown, nextId,
                   revokeCount, manualCount>>
    /\ UNCHANGED <<mounted, wav, prompt, keys, view>>

\* processQueue: no PENDING item, setIsProcessing(false)
EffectDrained ==
    /\ effectDue /\ thrown = NoCall
    /\ isProcessing
    /\ FindPending(items) = 0
    /\ isProcessing' = FALSE
    /\ effectDue' = TRUE
    /\ lastOp' = Op("clearFlag", "none", NoItem)
    /\ UNCHANGED <<items, userApiKey, inflight, thrown, nextId, revokeCount,
                   manualCount>>
    /\ UNCHANGED <<mounted, wav, prompt, keys, view>>

\* processQueue: pick the next PENDING item and start its generation
EffectPick ==
    /\ effectDue /\ thrown = NoCall
    /\ isProcessing
    /\ FindPending(items) # 0
    /\ LET nextItem == items[FindPending(items)]
       IN /\ items' = SetGenerating(items, nextItem.id)
          /\ StartCall("auto", nextItem)
          /\ lastOp' = Op("pick", "auto", nextItem)
    /\ effectDue' = TRUE
    /\ UNCHANGED <<isProcessing, userApiKey, nextId, revokeCount, manualCount>>
    /\ UNCHANGED <<mounted, wav, prompt, keys, view>>

\* a handleGenerateSingle that also starts the automatic processor
HandleGenerateSingleStartsQueue(id) ==
    /\ Quiescent
    /\ id \in Ids(items)
    /\ manualCount < MaxManual
    /\ manualCount' = manualCount + 1
    /\ LET itemToProcess == ItemOf(items, id)
       IN /\ items' = SetGenerating(items, id)
          /\ StartCall("manual", itemToProcess)
          /\ lastOp' = Op("manual", "manual", itemToProcess)
    /\ isProcessing' = TRUE
    /\ effectDue' = TRUE
    /\ UNCHANGED <<userApiKey, nextId, revokeCount>>
    /\ UNCHANGED <<mounted, wav, prompt, keys, view>>

\* handleGenerateSingle(id), for an id of the list
HandleGenerateSingle(id) ==
    /\ Quiescent
    /\ id \in Ids(items)
    /\ manualCount < MaxManual
    /\ manualCount' = manualCount + 1
    /\ LET itemToProcess == ItemOf(items, id)
       IN /\ items' = SetGenerating(items, id)
          /\ StartCall("manual", itemToProcess)
          /\ lastOp' = Op("manual", "manual", itemToProcess)
    /\ effectDue' = TRUE
    /\ UNCHANGED <<isProcessing, userApiKey, nextId, revokeCount>>
    /\ UNCHANGED <<mounted, wav, prompt, keys, view>>

\* catch block for `throw new Error('No API key configured')`
CatchNoKey ==
    /\ thrown # NoCall
    /\ items' = SetError(items, thrown.id,
                         OrDefault("No API key configured", Fallback(thrown.src)))
    /\ thrown' = NoCall
    /\ effectDue' = TRUE
    /\ lastOp' = Op("reject", thrown.src, thrown.item)
    /\ UNCHANGED <<isProcessing, userApiKey, inflight, nextId, revokeCount,
                   manualCount>>
    /\ UNCHANGED <<mounted, wav, prompt, keys, view>>

\* generateSpeech resolved: URL.createObjectURL, setItems(... 'SUCCESS')
Resolve(call) ==
    /\ Quiescent
    /\ BagIn(call, inflight)
    /\ UrlsCreated < MaxUrls
    /\ LET url == UrlsCreated + 1
       IN /\ revokeCount' = Append(revokeCount, 0)
          /\ items' = SetSuccess(items, call.id, url)
    /\ inflight' = inflight (-) SetToBag({call})
    /\ effectDue' = TRUE
    /\ lastOp' = Op("resolve", call.src, call.item)
    /\ UNCHANGED <<isProcessing, userApiKey, thrown, nextId, manualCount>>
    /\ UNCHANGED <<mounted, wav, prompt, keys, view>>

\* generateSpeech rejected: setItems(... 'ERROR')
Reject(call, raw) ==
    /\ Quiescent
    /\ BagIn(call, inflight)
    /\ items' = SetError(items, call.id,
                         OrDefault(GenerateSpeechError(raw), Fallback(call.src)))
    /\ inflight' = inflight (-) SetToBag({call})
    /\ effectDue' = TRUE
    /\ lastOp' = Op("reject", call.src, call.item)
    /\ UNCHANGED <<isProcessing, userApiKey, thrown, nextId, revokeCount,
                   manualCount>>
    /\ UNCHANGED <<mounted, wav, prompt, keys, view>>

\* handleDelete(id)
HandleDelete(id) ==
    /\ Quiescent
    /\ id \in Ids(items)
    /\ LET item == ItemOf(items, id)
       IN /\ revokeCount' = IF item.audioUrl # NoUrl
                            THEN Revoke(revokeCount, item.audioUrl)
                            ELSE revokeCount
          /\ lastOp' = Op("delete", "none", item)
    /\ items' = RemoveItem(items, id)
    /\ effectDue' = TRUE
    /\ UNCHANGED <<isProcessing, userApiKey, inflight, thrown, nextId,
                   manualCount>>
    /\ UNCHANGED <<mounted, wav, prompt, keys, view>>

\* the `items` of the unmount cleanup: its effect has the dependency list [],
\* so the cleanup is the closure of the first render, over useState([])
CleanupItems == <<>>

\* its.forEach(item => { if (item.audioUrl) URL.revokeObjectURL(item.audioUrl) })
RevokeAll(rc, its) ==
    LET RECURSIVE Go(_, _)
        Go(r, k) == IF k > Len(its) THEN r
                    ELSE Go(IF its[k].audioUrl # NoUrl
                            THEN Revoke(r, its[k].audioUrl) ELSE r, k + 1)
    IN Go(rc, 1)

\* Home is unmounted: the cleanup of the mount effect runs
Unmount ==
    /\ Quiescent
    /\ mounted' = FALSE
    /\ revokeCount' = RevokeAll(revokeCount, CleanupItems)
    /\ lastOp' = Op("unmount", "none", NoItem)
    /\ UNCHANGED <<items, isProcessing, userApiKey, inflight, thrown, effectDue,
                   nextId, manualCount, wav, prompt, keys, view>>

\* an item view that renders the button whatever the job's status
GenerateButtonAlways(id) == id \in Ids(items)

\* the item view renders a Generate Now / Re-generate button for the job
GenerateButton(id) ==
    /\ id \in Ids(items)
    /\ ItemOf(items, id).status # "GENERATING"

\* the Add to Queue button is enabled: disabled={!text.trim()}
AddButton(form) == ~IsBlank(form.text)

\* the Process Queue button is rendered and enabled
ProcessQueueButton == PendingCount > 0 /\ ~isProcessing

\* -------------------------------------------------------- specifications
\* The handlers as written: handleGenerateSingle for any id of the list.
Next ==
    \/ LoadApiKey
    \/ \E form \in QueueForms : HandleAddToQueue(form)
    \/ StartQueue
    \/ EffectIdle
    \/ EffectDrained
    \/ EffectPick
    \/ \E id \in JobIds : HandleGenerateSingle(id)
    \/ CatchNoKey
    \/ \E call \in BagToSet(inflight) : Resolve(call)
    \/ \E call \in BagToSet(inflight) : \E raw \in RawErrors : Reject(call, raw)
    \/ \E id \in JobIds : HandleDelete(id)

Spec == Init /\ [][Next]_vars

\* The handlers as written, and the page being left.
NextUnmount ==
    \/ Next
    \/ Unmount

SpecUnmount == Init /\ [][NextUnmount]_vars

\* A session whose user has no active key: getActiveApiKey returns null and
\* userApiKey stays null.  React runs every scheduled effect and catch block.
NextNoKey ==
    \/ \E form \in QueueForms : HandleAddToQueue(form)
    \/ StartQueue
    \/ EffectIdle
    \/ EffectDrained
    \/ EffectPick
    \/ \E id \in JobIds : HandleGenerateSingle(id)
    \/ CatchNoKey
    \/ \E id \in JobIds : HandleDelete(id)

SpecNoKey ==
    /\ Init
    /\ [][NextNoKey]_vars
    /\ WF_vars(EffectIdle \/ EffectDrained \/ EffectPick)
    /\ WF_vars(CatchNoKey)

\* Pure automatic processing: enqueue, startQueue and completions only.
NextAuto ==
    \/ LoadApiKey
    \/ \E form \in QueueForms : HandleAddToQueue(form)
    \/ StartQueue
    \/ EffectIdle
    \/ EffectDrained
    \/ EffectPick
    \/ CatchNoKey
    \/ \E call \in BagToSet(inflight) : Resolve(call)
    \/ \E call \in BagToSet(inflight) : \E raw \in RawErrors : Reject(call, raw)

SpecAuto == Init /\ [][NextAuto]_vars

\* The handlers as the page lets the user invoke them: a manual trigger only
\* through a rendered button, startQueue only through the enabled button.
NextUI ==
    \/ LoadApiKey
    \/ \E form \in QueueForms : AddButton(form) /\ HandleAddToQueue(form)
    \/ ProcessQueueButton /\ StartQueue
    \/ EffectIdle
    \/ EffectDrained
    \/ EffectPick
    \/ \E id \in JobIds : GenerateButton(id) /\ HandleGenerateSingle(id)
    \/ CatchNoKey
    \/ \E call \in BagToSet(inflight) : Resolve(call)
    \/ \E call \in BagToSet(inflight) : \E raw \in RawErrors : Reject(call, raw)
    \/ \E id \in JobIds : HandleDelete(id)

SpecUI == Init /\ [][NextUI]_vars

\* a generateSpeech call for job id settles
Settle(id) ==
    \E call \in BagToSet(inflight) :
        /\ call.id = id
        /\ \/ Resolve(call)
           \/ \E raw \in RawErrors : Reject(call, raw)

\* The page as the user can drive it, where React runs every scheduled effect
\* and catch block and every generateSpeech call resolves or rejects.
SpecUILive ==
    /\ Init
    /\ [][NextUI]_vars
    /\ WF_vars(EffectIdle \/ EffectDrained \/ EffectPick)
    /\ WF_vars(CatchNoKey)
    /\ \A id \in JobIds : SF_vars(Settle(id))

\* the calls the automatic processor can start
AutoCalls ==
    {[id |-> i, src |-> "auto", item |-> NewItem(form, i, i, len)] :
        i \in JobIds, form \in QueueForms, len \in 0..(MaxJobs - 1)}

\* Automatic processing and deletion, where React runs every scheduled
\* effect and catch block and every generateSpeech call settles.
NextLive ==
    \/ LoadApiKey
    \/ \E form \in QueueForms : HandleAddToQueue(form)
    \/ StartQueue
    \/ EffectIdle
    \/ EffectDrained
    \/ EffectPick
    \/ CatchNoKey
    \/ \E call \in BagToSet(inflight) : Resolve(call)
    \/ \E call \in BagToSet(inflight) : \E raw \in RawErrors : Reject(call, raw)
    \/ \E id \in JobIds : HandleDelete(id)

SpecLive ==
    /\ Init
    /\ [][NextLive]_vars
    /\ WF_vars(EffectIdle \/ EffectDrained \/ EffectPick)
    /\ WF_vars(CatchNoKey)
    /\ \A call \in AutoCalls :
          SF_vars(Resolve(call) \/ \E raw \in RawErrors : Reject(call, raw))

TypeOK ==
    /\ \A k \in DOMAIN items : items[k].status \in ItemStatus
    /\ isProcessing \in BOOLEAN
    /\ effectDue \in BOOLEAN
    /\ nextId \in 1..(MaxJobs + 1)
    /\ manualCount \in 0..MaxManual
    /\ mounted \in BOOLEAN

\* ------------------------------------------------- the WAV encoder, pcmToWav
(***************************************************************************)
(* A JavaScript number is a 64-bit two's-complement word here, eight       *)
(* base-256 digits with the least significant first; this is exact for     *)
(* every integer the encoder computes from arguments below 2^31.           *)
(* DataView.setUint16 / setUint32 store the low two / four digits.         *)
(***************************************************************************)
\* byte values the PCM inputs are built from
PcmBytes == {0, 255}

\* sampleRate arguments
WavSampleRates == {-1, 0, 1, 24000, 44100, 2147483647}

\* numChannels arguments
WavChannels == {-1, 0, 1, 2, 32768, 65535, 65536}

SeqsUpTo(S, n) == UNION {[1..m -> S] : m \in 0..n}

\* the number v as a word
Num(v) ==
    [i \in 1..8 |-> IF i <= 4 THEN (v \div (256 ^ (i - 1))) % 256
                    ELSE IF v < 0 THEN 255 ELSE 0]

\* x * y on words
Times(x, y) ==
    LET RECURSIVE Col(_, _)
        Col(k, i) == IF i > k THEN 0 ELSE x[i] * y[k + 1 - i] + Col(k, i + 1)
        RECURSIVE Go(_, _)
        Go(k, carry) ==
            IF k > 8 THEN <<>>
            ELSE LET t == Col(k, 1) + carry
                 IN <<t % 256>> \o Go(k + 1, t \div 256)
    IN Go(1, 0)

\* str.charCodeAt(i) for the characters of the chunk tags
CharCodeAt(c) ==
    CASE c = "R" -> 82 [] c = "I" -> 73 [] c = "F" -> 70 [] c = "W" -> 87
      [] c = "A" -> 65 [] c = "V" -> 86 [] c = "E" -> 69 [] c = "f" -> 102
      [] c = "m" -> 109 [] c = "t" -> 116 [] c = " " -> 32 [] c = "d" -> 100
      [] c = "a" -> 97

\* store `bytes` from byte offset `offset` (0-based) of the buffer
WriteBytes(buf, offset, bytes) ==
    [i \in DOMAIN buf |->
        IF i > offset /\ i <= offset + Len(bytes) THEN bytes[i - offset]
        ELSE buf[i]]

\* writeString(view, offset, str)
WriteString(buf, offset, str) ==
    WriteBytes(buf, offset, [i \in DOMAIN str |-> CharCodeAt(str[i])])

\* view.setUint16(offset, value, true)
SetUint16(buf, offset, value) == WriteBytes(buf, offset, SubSeq(value, 1, 2))

\* a setUint32 without the littleEndian flag: most significant byte first
SetUint32BigEndian(buf, offset, value) ==
    WriteBytes(buf, offset, <<value[4], value[3], value[2], value[1]>>)

\* view.setUint32(offset, value, true)
SetUint32(buf, offset, value) == WriteBytes(buf, offset, SubSeq(value, 1, 4))

\* pcmToWav(pcmData, sampleRate, numChannels): the bytes of the Blob returned
PcmToWav(pcmData, sampleRate, numChannels) ==
    LET bytesPerSample == 2
        blockAlign == Times(Num(numChannels), Num(bytesPerSample))
        byteRate == Times(Num(sampleRate), blockAlign)
        dataSize == Len(pcmData)
        fileSize == 36 + dataSize
        buffer == [i \in 1..(44 + dataSize) |-> 0]
        b1 == WriteString(buffer, 0, <<"R", "I", "F", "F">>)
        b2 == SetUint32(b1, 4, Num(fileSize))
        b3 == WriteString(b2, 8, <<"W", "A", "V", "E">>)
        b4 == WriteString(b3, 12, <<"f", "m", "t", " ">>)
        b5 == SetUint32(b4, 16, Num(16))
        b6 == SetUint16(b5, 20, Num(1))
        b7 == SetUint16(b6, 22, Num(numChannels))
        b8 == SetUint32(b7, 24, Num(sampleRate))
        b9 == SetUint32(b8, 28, byteRate)
        b10 == SetUint16(b9, 32, blockAlign)
        b11 == SetUint16(b10, 34, Num(16))
        b12 == WriteString(b11, 36, <<"d", "a", "t", "a">>)
        b13 == SetUint32(b12, 40, Num(dataSize))
    IN WriteBytes(b13, 44, pcmData)

\* the pcmToWav calls traced: any PCM bytes, sample rate and channel count
WavCalls ==
    {[pc |-> "call", pcmData |-> d, sampleRate |-> r, numChannels |-> c,
      out |-> <<>>] :
        d \in SeqsUpTo(PcmBytes, MaxPcm), r \in WavSampleRates, c \in WavChannels}

WavInit ==
    /\ QueueInit
    /\ prompt = PromptIdle
    /\ keys = KeysIdle
    /\ view = ViewIdle
    /\ wav \in WavCalls

\* the call runs to its return
PcmToWavCall ==
    /\ wav.pc = "call"
    /\ wav' = [wav EXCEPT !.pc = "done",
                          !.out = PcmToWav(wav.pcmData, wav.sampleRate,
                                           wav.numChannels)]
    /\ UNCHANGED <<queueVars, prompt, keys, view>>

NextWav == PcmToWavCall

\* pcmToWav applied to each argument triple of WavCalls
SpecWav == WavInit /\ [][NextWav]_vars


\* ------------------------------- a submission, from the form to the encoder
\* what the form can hold when Add to Queue runs
PromptForms ==
    {[text |-> t, label |-> l, systemInstruction |-> si,
      selectedVoice |-> v, selectedModel |-> m] :
        t \in {<<" ">>, <<"h", "i">>, <<" ", "h", "i", " ">>},
        l \in {<<>>, <<"x">>},
        si \in {<<>>, <<" ">>, <<"c">>, <<" ", "c", " ">>},
        v \in Voices, m \in Models}

\* items.length when Add to Queue runs
PromptLens == {0, 8, 9}

\* a finalPrompt that joins style and text with a space
FinalPromptSpace(text, systemInstruction) ==
    IF /\ systemInstruction # NoInstruction
       /\ systemInstruction # <<>>
       /\ Trim(systemInstruction) # <<>>
    THEN Trim(systemInstruction) \o <<" ">> \o text
    ELSE text

\* finalPrompt of generateSpeech({ text, systemInstruction })
FinalPrompt(text, systemInstruction) ==
    IF /\ systemInstruction # NoInstruction
       /\ systemInstruction # <<>>
       /\ Trim(systemInstruction) # <<>>
    THEN Trim(systemInstruction) \o <<"\n">> \o text
    ELSE text

\* the generateContent request of generateSpeech for the item
GenerateContentRequest(item) ==
    [model |-> item.model,
     text |-> FinalPrompt(item.text, item.systemInstruction),
     voiceName |-> item.voice]

NoRequest == [model |-> "none", text |-> <<>>, voiceName |-> "none"]

PromptInit ==
    /\ QueueInit
    /\ wav = WavIdle
    /\ keys = KeysIdle
    /\ view = ViewIdle
    /\ \E form \in PromptForms, len \in PromptLens :
          prompt = [pc |-> "form", form |-> form, len |-> len, item |-> NoItem,
                    request |-> NoRequest, blob |-> <<>>]

\* handleAddToQueue on the traced form: the item it prepends, or its return
\* on blank text
PromptAdd ==
    /\ prompt.pc = "form"
    /\ prompt' = IF IsBlank(prompt.form.text)
                 THEN [prompt EXCEPT !.pc = "dropped"]
                 ELSE [prompt EXCEPT !.pc = "queued",
                                     !.item = NewItem(prompt.form, 1, 1, prompt.len)]
    /\ UNCHANGED <<queueVars, wav, keys, view>>

\* a trigger calls generateSpeech with the item's text, voice, model and
\* systemInstruction; generateSpeech sends its request
PromptGenerate ==
    /\ prompt.pc = "queued"
    /\ prompt' = [prompt EXCEPT !.pc = "requested",
                                !.request = GenerateContentRequest(prompt.item)]
    /\ UNCHANGED <<queueVars, wav, keys, view>>

\* the response carries audio: pcmToWav(pcmBytes, 24000, 1)
PromptEncode ==
    /\ prompt.pc = "requested"
    /\ \E pcmBytes \in SeqsUpTo(PcmBytes, 1) :
          prompt' = [prompt EXCEPT !.pc = "encoded",
                                   !.blob = PcmToWav(pcmBytes, 24000, 1)]
    /\ UNCHANGED <<queueVars, wav, keys, view>>

NextPrompt ==
    \/ PromptAdd
    \/ PromptGenerate
    \/ PromptEncode

\* one form submission followed from handleAddToQueue to the encoded result
SpecPrompt == PromptInit /\ [][NextPrompt]_vars

\* --------------------------- the api_keys table and the Settings handlers
(***************************************************************************)
(* One step is one request to the table (a statement with its triggers,    *)
(* atomic in the database) or the start of a handler.  A request either    *)
(* reaches the database or fails with an error (`ok`).  Handlers of the    *)
(* Settings page can be started while earlier ones still await a request.  *)
(***************************************************************************)
TheUser == "user"                          \* user.id of the session
OtherUser == "other"                       \* another user of the table

\* trimmed labels typed into the add form; "" is a blank label
KeyLabels == {"", "a", "b"}

KeyIds == 1..MaxKeys

\* a row of another user, there before the session starts
OtherRow == [id |-> 0, user_id |-> OtherUser, label |-> "a", is_active |-> TRUE]

NoKeyCall == [h |-> "none", pc |-> "idle", id |-> 0, label |-> "",
              setAsActive |-> FALSE, before |-> {}]

\* a trigger function that returns NEW without touching the other rows
EnsureSingleActiveKeyAbsent(rows, new) == rows

\* ensure_single_active_key(), BEFORE INSERT OR UPDATE FOR EACH ROW: the other
\* rows of the table after the trigger ran for the row NEW
EnsureSingleActiveKey(rows, new) ==
    IF new.is_active
    THEN {IF r.user_id = new.user_id /\ r.id # new.id
          THEN [r EXCEPT !.is_active = FALSE] ELSE r : r \in rows}
    ELSE rows

\* unique_label_per_user would be violated by the row
LabelTaken(rows, new) ==
    \E r \in rows : r.user_id = new.user_id /\ r.label = new.label

\* insert(new)
InsertRow(rows, new) == EnsureSingleActiveKey(rows, new) \cup {new}

\* update({ is_active: false }).eq('user_id', user)
DeactivateAll(rows, user) ==
    {IF r.user_id = user THEN [r EXCEPT !.is_active = FALSE] ELSE r : r \in rows}

\* update({ is_active: true }).eq('id', id).eq('user_id', user)
ActivateRow(rows, id, user) ==
    IF \E r \in rows : r.id = id /\ r.user_id = user
    THEN LET old == CHOOSE r \in rows : r.id = id /\ r.user_id = user
             new == [old EXCEPT !.is_active = TRUE]
         IN EnsureSingleActiveKey(rows \ {old}, new) \cup {new}
    ELSE rows

\* delete().eq('id', id).eq('user_id', user)
DeleteRow(rows, id, user) == {r \in rows : ~(r.id = id /\ r.user_id = user)}

\* select('*').eq('user_id', user)
RowsOf(rows, user) == {r \in rows : r.user_id = user}

\* ids of the user's rows with is_active = true
ActiveIds(rows, user) == {r.id : r \in {x \in RowsOf(rows, user) : x.is_active}}

\* getActiveApiKey(): .eq('is_active', true).single() gives the row when
\* exactly one matches and the error PGRST116 otherwise, which returns null
GetActiveApiKey(rows, user) ==
    IF Cardinality(ActiveIds(rows, user)) = 1
    THEN CHOOSE id \in ActiveIds(rows, user) : TRUE
    ELSE 0

\* the result of the last addApiKey / deleteApiKey / setActiveApiKey call
KeyOp(name, id, ok, before) == [op |-> name, id |-> id, ok |-> ok, before |-> before]

KeysInit ==
    /\ QueueInit
    /\ wav = WavIdle
    /\ prompt = PromptIdle
    /\ view = ViewIdle
    /\ keys = [pc |-> "settings",
               rows |-> {OtherRow},
               nextKey |-> 1,
               apiKeys |-> {},
               calls |-> [s \in 1..MaxCalls |-> NoKeyCall],
               last |-> KeyOp("none", 0, TRUE, {})]

KeysFrame == UNCHANGED <<queueVars, wav, prompt, view>>

\* a handler that starts takes the first free slot
FreeSlot(s) ==
    /\ keys.calls[s] = NoKeyCall
    /\ \A t \in 1..(s - 1) : keys.calls[t] # NoKeyCall

\* the handler of slot s returns
Return(s) == [keys.calls EXCEPT ![s] = NoKeyCall]

\* handleAddKey: blank input is refused; else addApiKey is called with
\* setAsActive = (apiKeys.length === 0); the button is disabled while adding
HandleAddKey(s, label) ==
    /\ keys.pc = "settings"
    /\ FreeSlot(s)
    /\ \A t \in 1..MaxCalls : keys.calls[t].h # "add"
    /\ IF label = ""
       THEN keys' = [keys EXCEPT !.last = KeyOp("addRefused", 0, FALSE, {})]
       ELSE /\ keys.nextKey <= MaxKeys
            /\ keys' = [keys EXCEPT !.calls[s] =
                          [NoKeyCall EXCEPT !.h = "add", !.pc = "insert",
                                            !.label = label,
                                            !.setAsActive = (keys.apiKeys = {})]]
    /\ KeysFrame

\* addApiKey: the insert, then the handler goes on to loadApiKeys or throws
AddInsert(s, ok) ==
    /\ keys.calls[s].pc = "insert"
    /\ LET call == keys.calls[s]
           new == [id |-> keys.nextKey, user_id |-> TheUser,
                   label |-> call.label, is_active |-> call.setAsActive]
       IN IF ok /\ ~LabelTaken(keys.rows, new)
          THEN keys' = [keys EXCEPT !.rows = InsertRow(keys.rows, new),
                                    !.nextKey = @ + 1,
                                    !.calls[s].pc = "load",
                                    !.last = KeyOp("add", new.id, TRUE, {})]
          ELSE keys' = [keys EXCEPT !.calls = Return(s),
                                    !.last = KeyOp("add", 0, FALSE, {})]
    /\ KeysFrame

\* handleDeleteKey(id) for a listed key, confirmed
HandleDeleteKey(s, id) ==
    /\ keys.pc = "settings"
    /\ FreeSlot(s)
    /\ \E r \in keys.apiKeys : r.id = id
    /\ keys' = [keys EXCEPT !.calls[s] =
                  [NoKeyCall EXCEPT !.h = "delete", !.pc = "delete", !.id = id]]
    /\ KeysFrame

\* deleteApiKey: the delete, then loadApiKeys or throw
DeleteRequest(s, ok) ==
    /\ keys.calls[s].pc = "delete"
    /\ LET call == keys.calls[s]
       IN IF ok
          THEN keys' = [keys EXCEPT !.rows = DeleteRow(keys.rows, call.id, TheUser),
                                    !.calls[s].pc = "load",
                                    !.last = KeyOp("delete", call.id, TRUE, {})]
          ELSE keys' = [keys EXCEPT !.calls = Return(s),
                                    !.last = KeyOp("delete", call.id, FALSE, {})]
    /\ KeysFrame

\* handleSetActive(id) through the button of a key listed as inactive
HandleSetActive(s, id) ==
    /\ keys.pc = "settings"
    /\ FreeSlot(s)
    /\ \E r \in keys.apiKeys : r.id = id /\ ~r.is_active
    /\ keys' = [keys EXCEPT !.calls[s] =
                  [NoKeyCall EXCEPT !.h = "setActive", !.pc = "deactivate",
                                    !.id = id,
                                    !.before = ActiveIds(keys.rows, TheUser)]]
    /\ KeysFrame

\* setActiveApiKey, first request: deactivate all keys; its error is not read
SetActiveDeactivate(s, ok) ==
    /\ keys.calls[s].pc = "deactivate"
    /\ keys' = [keys EXCEPT !.rows = IF ok THEN DeactivateAll(@, TheUser) ELSE @,
                            !.calls[s].pc = "activate"]
    /\ KeysFrame

\* setActiveApiKey, second request: activate the key, or throw its error
SetActiveActivate(s, ok) ==
    /\ keys.calls[s].pc = "activate"
    /\ LET call == keys.calls[s]
       IN IF ok
          THEN keys' = [keys EXCEPT !.rows = ActivateRow(keys.rows, call.id, TheUser),
                                    !.calls[s].pc = "load",
                                    !.last = KeyOp("setActive", call.id, TRUE,
                                                   call.before)]
          ELSE keys' = [keys EXCEPT !.calls = Return(s),
                                    !.last = KeyOp("setActive", call.id, FALSE,
                                                   call.before)]
    /\ KeysFrame

\* loadApiKeys: getAllApiKeys returns the user's rows, or [] on an error
LoadApiKeys(s, ok) ==
    /\ keys.calls[s].pc = "load"
    /\ keys' = [keys EXCEPT !.apiKeys = IF ok THEN RowsOf(keys.rows, TheUser) ELSE {},
                            !.calls = Return(s)]
    /\ KeysFrame

NextKeys ==
    \/ \E s \in 1..MaxCalls, label \in KeyLabels : HandleAddKey(s, label)
    \/ \E s \in 1..MaxCalls, ok \in BOOLEAN : AddInsert(s, ok)
    \/ \E s \in 1..MaxCalls, id \in KeyIds : HandleDeleteKey(s, id)
    \/ \E s \in 1..MaxCalls, ok \in BOOLEAN : DeleteRequest(s, ok)
    \/ \E s \in 1..MaxCalls, id \in KeyIds : HandleSetActive(s, id)
    \/ \E s \in 1..MaxCalls, ok \in BOOLEAN : SetActiveDeactivate(s, ok)
    \/ \E s \in 1..MaxCalls, ok \in BOOLEAN : SetActiveActivate(s, ok)
    \/ \E s \in 1..MaxCalls, ok \in BOOLEAN : LoadApiKeys(s, ok)

\* the Settings page of one user working on the table
SpecKeys == KeysInit /\ [][NextKeys]_vars

\* -------------------------- HistoryItem: the error text shown for an item
\* the fixed texts parseErrorMessage returns, each held as one element
RateLimitText == <<"Rate limit reached. Please wait 60 seconds and try again.">>
ApiKeyText == <<"API key issue. Please check your settings.">>
ModelText == <<"Model not available. Try a different model.">>
AudioText == <<"Audio generation failed. Model may not support TTS.">>
NetworkText == <<"Network error. Check your connection.">>
GenericText == <<"Generation failed. Please retry.">>

\* c.toLowerCase() for one character
LowerChar(c) ==
    CASE c = "A" -> "a" [] c = "B" -> "b" [] c = "C" -> "c" [] c = "D" -> "d"
      [] c = "E" -> "e" [] c = "F" -> "f" [] c = "G" -> "g" [] c = "H" -> "h"
      [] c = "I" -> "i" [] c = "J" -> "j" [] c = "K" -> "k" [] c = "L" -> "l"
      [] c = "M" -> "m" [] c = "N" -> "n" [] c = "O" -> "o" [] c = "P" -> "p"
      [] c = "Q" -> "q" [] c = "R" -> "r" [] c = "S" -> "s" [] c = "T" -> "t"
      [] c = "U" -> "u" [] c = "V" -> "v" [] c = "W" -> "w" [] c = "X" -> "x"
      [] c = "Y" -> "y" [] c = "Z" -> "z"
      [] OTHER -> c

\* str.toLowerCase()
ToLowerCase(str) == [i \in DOMAIN str |-> LowerChar(str[i])]

\* str.includes(sub)
Contains(str, sub) ==
    \E i \in 0..(Len(str) - Len(sub)) : SubSeq(str, i + 1, i + Len(sub)) = sub

\* a parseErrorMessage that looks for API-key errors before rate limits
ParseErrorMessageKeyFirst(error) ==
    IF \/ Contains(ToLowerCase(error), <<"a", "p", "i", " ", "k", "e", "y">>)
       \/ Contains(ToLowerCase(error), <<"a", "u", "t", "h", "e", "n", "t", "i", "c", "a", "t", "i", "o", "n">>)
    THEN ApiKeyText
    ELSE IF \/ Contains(error, <<"4", "2", "9">>)
            \/ Contains(ToLowerCase(error), <<"q", "u", "o", "t", "a">>)
            \/ Contains(ToLowerCase(error), <<"r", "a", "t", "e", " ", "l", "i", "m", "i", "t">>)
            \/ Contains(error, <<"R", "E", "S", "O", "U", "R", "C", "E", "_", "E", "X", "H", "A", "U", "S", "T", "E", "D">>)
    THEN RateLimitText
    ELSE IF \/ Contains(error, <<"4", "0", "4">>)
            \/ Contains(ToLowerCase(error), <<"n", "o", "t", " ", "f", "o", "u", "n", "d">>)
    THEN ModelText
    ELSE IF \/ Contains(ToLowerCase(error), <<"a", "u", "d", "i", "o">>)
            \/ Contains(ToLowerCase(error), <<"m", "o", "d", "a", "l", "i", "t", "y">>)
    THEN AudioText
    ELSE IF \/ Contains(ToLowerCase(error), <<"n", "e", "t", "w", "o", "r", "k">>)
            \/ Contains(ToLowerCase(error), <<"f", "e", "t", "c", "h">>)
    THEN NetworkText
    ELSE IF Len(error) > 100 THEN GenericText
    ELSE error

\* parseErrorMessage(error)
ParseErrorMessage(error) ==
    IF \/ Contains(error, <<"4", "2", "9">>)
       \/ Contains(ToLowerCase(error), <<"q", "u", "o", "t", "a">>)
       \/ Contains(ToLowerCase(error), <<"r", "a", "t", "e", " ", "l", "i", "m", "i", "t">>)
       \/ Contains(error, <<"R", "E", "S", "O", "U", "R", "C", "E", "_", "E", "X", "H", "A", "U", "S", "T", "E", "D">>)
    THEN RateLimitText
    ELSE IF \/ Contains(ToLowerCase(error), <<"a", "p", "i", " ", "k", "e", "y">>)
            \/ Contains(ToLowerCase(error), <<"a", "u", "t", "h", "e", "n", "t", "i", "c", "a", "t", "i", "o", "n">>)
    THEN ApiKeyText
    ELSE IF \/ Contains(error, <<"4", "0", "4">>)
            \/ Contains(ToLowerCase(error), <<"n", "o", "t", " ", "f", "o", "u", "n", "d">>)
    THEN ModelText
    ELSE IF \/ Contains(ToLowerCase(error), <<"a", "u", "d", "i", "o">>)
            \/ Contains(ToLowerCase(error), <<"m", "o", "d", "a", "l", "i", "t", "y">>)
    THEN AudioText
    ELSE IF \/ Contains(ToLowerCase(error), <<"n", "e", "t", "w", "o", "r", "k">>)
            \/ Contains(ToLowerCase(error), <<"f", "e", "t", "c", "h">>)
    THEN NetworkText
    ELSE IF Len(error) > 100 THEN GenericText
    ELSE error

\* parseErrorMessage(item.error || 'Generation failed')
ShownError(item) ==
    ParseErrorMessage(IF item.error = <<>> THEN <<"G", "e", "n", "e", "r", "a", "t", "i", "o", "n", " ", "f", "a", "i", "l", "e", "d">>
                      ELSE item.error)

\* the Generate Now button of the item: !isSuccess && !isGenerating
GenerateNowButton(item) == item.status # "SUCCESS" /\ item.status # "GENERATING"

\* pieces the stored error messages are made of
ErrorPieces ==
    {<<"4", "2", "9">>,
     <<"Q", "u", "o", "t", "a">>,
     <<"r", "a", "t", "e", " ", "l", "i", "m", "i", "t">>,
     <<"R", "E", "S", "O", "U", "R", "C", "E", "_", "E", "X", "H", "A", "U", "S", "T", "E", "D">>,
     <<"r", "e", "s", "o", "u", "r", "c", "e", "_", "e", "x", "h", "a", "u", "s", "t", "e", "d">>,
     <<"N", "o", " ", "A", "P", "I", " ", "k", "e", "y", " ", "c", "o", "n", "f", "i", "g", "u", "r", "e", "d">>,
     <<"A", "u", "t", "h", "e", "n", "t", "i", "c", "a", "t", "i", "o", "n">>,
     <<"M", "o", "d", "e", "l", " ", "n", "o", "t", " ", "f", "o", "u", "n", "d", " ", "(", "4", "0", "4", ")">>,
     <<"N", "o", "t", " ", "F", "o", "u", "n", "d">>,
     <<"A", "U", "D", "I", "O">>,
     <<"m", "o", "d", "a", "l", "i", "t", "y">>,
     <<"N", "e", "t", "w", "o", "r", "k">>,
     <<"f", "e", "t", "c", "h">>,
     <<"o", "k">>}

\* filler of n characters
Filler(n) == [i \in 1..n |-> "x"]

\* the stored errors: up to MaxPieces pieces joined by a blank, or filler of
\* 100 or 101 characters, alone or after a piece
RECURSIVE Joined(_)
Joined(n) ==
    IF n = 0 THEN {<<>>}
    ELSE Joined(n - 1) \cup
         {IF e = <<>> THEN f ELSE e \o <<" ">> \o f :
             e \in Joined(n - 1), f \in ErrorPieces}

StoredErrors ==
    Joined(MaxPieces) \cup {Filler(100), Filler(101)}
        \cup {f \o <<" ">> \o Filler(101) : f \in ErrorPieces}

ViewInit ==
    /\ QueueInit
    /\ wav = WavIdle
    /\ prompt = PromptIdle
    /\ keys = KeysIdle
    /\ \E e \in StoredErrors :
          view = [pc |-> "render", item |-> [status |-> "ERROR", error |-> e],
                  shown |-> <<>>, button |-> FALSE]

\* HistoryItem renders the item: the error text and the action button
RenderError ==
    /\ view.pc = "render"
    /\ view' = [view EXCEPT !.pc = "shown",
                            !.shown = ShownError(view.item),
                            !.button = GenerateNowButton(view.item)]
    /\ UNCHANGED <<queueVars, wav, prompt, keys>>

NextView == RenderError

\* HistoryItem rendering an ERROR item for each stored error
SpecView == ViewInit /\ [][NextView]_vars

\* -------------------------------------------------------------- properties
StatusOf(id) ==
    IF id \in Ids(items) THEN ItemOf(items, id).status ELSE "REMOVED"

Generating == {k \in DOMAIN items : items[k].status = "GENERATING"}

Terminal == {"SUCCESS", "ERROR"}

\* C1: under pure automatic processing at most one job is GENERATING and at
\* most one generateSpeech call is in flight, in every reachable state.
C1_AtMostOneGenerating ==
    /\ Cardinality(Generating) <= 1
    /\ BagCardinality(inflight) <= 1

\* C2: every selection of the automatic processor picks the earliest-submitted
\* PENDING job, and a job reaches SUCCESS only after every job submitted
\* before it has left PENDING and GENERATING (order J1, J2, J3).
C2_FifoOrder ==
    [][/\ lastOp'.op = "pick" =>
            \A k \in DOMAIN items :
                items[k].status = "PENDING" => lastOp'.id <= items[k].id
       /\ lastOp'.op = "resolve" =>
            \A k \in DOMAIN items :
                items[k].id < lastOp'.id => items[k].status \in Terminal]_vars

\* C3: for every job of the list, audioUrl is present iff status is SUCCESS
\* and error is present iff status is ERROR.
C3_HandleMatchesStatus ==
    \A k \in DOMAIN items :
        /\ items[k].audioUrl # NoUrl <=> items[k].status = "SUCCESS"
        /\ items[k].error # NoError <=> items[k].status = "ERROR"

\* C4: when a manual re-generate of a SUCCESS job has finished, the object URL
\* the job held before it has been released exactly once.
C4_PriorUrlReleasedOnce ==
    (/\ lastOp.op \in {"resolve", "reject"}
     /\ lastOp.src = "manual"
     /\ lastOp.item.status = "SUCCESS")
        => revokeCount[lastOp.item.audioUrl] = 1

\* C5: a completion for a job that was deleted while its call was in flight
\* leaves the list as it is (the job does not reappear, no other job changes),
\* and an id enters the list only as the fresh id of handleAddToQueue.
C5_LateCompletionIgnored ==
    [][/\ (lastOp'.op \in {"resolve", "reject"} /\ lastOp'.id \notin Ids(items))
            => items' = items
       /\ \A id \in Ids(items') \ Ids(items) :
            lastOp'.op = "add" /\ id = nextId]_vars

C5_Witness ==
    /\ lastOp.op = "resolve"
    /\ lastOp.id \in JobIds
    /\ lastOp.id \notin Ids(items)
    /\ items # <<>>

\* C6: handleDelete of a SUCCESS job releases the job's audioUrl once, removes
\* the job, and keeps the other jobs and their order.
C6_DeleteReleases ==
    [][(lastOp'.op = "delete" /\ lastOp'.item.status = "SUCCESS") =>
        LET it == lastOp'.item
        IN /\ it.id \notin Ids(items')
           /\ revokeCount'[it.audioUrl] = 1
           /\ \A u \in DOMAIN revokeCount :
                u # it.audioUrl => revokeCount'[u] = revokeCount[u]
           /\ \E p \in DOMAIN items :
                /\ items[p] = it
                /\ Len(items') = Len(items) - 1
                /\ \A k \in DOMAIN items' :
                     items'[k] = IF k < p THEN items[k] ELSE items[k + 1]]_vars

C6_Witness ==
    /\ lastOp.op = "delete"
    /\ lastOp.item.status = "SUCCESS"
    /\ revokeCount[lastOp.item.audioUrl] = 1
    /\ items # <<>>

\* C7: once startQueue has set the flag, every PENDING job eventually is in
\* SUCCESS or ERROR or deleted, and the flag is eventually cleared.
C7_QueueDrains ==
    /\ \A id \in JobIds :
          (isProcessing /\ StatusOf(id) = "PENDING")
              ~> (StatusOf(id) \in Terminal \cup {"REMOVED"})
    /\ isProcessing ~> ~isProcessing

C7_Witness ==
    /\ ~isProcessing
    /\ Len(items) >= 2
    /\ \A k \in DOMAIN items : items[k].status \in Terminal
    /\ lastOp.src = "auto"
    /\ lastOp.op \in {"resolve", "reject"}

C9_NoAutoRetry ==
    [][/\ lastOp'.op = "pick" => lastOp'.item.status = "PENDING"
       /\ \A id \in JobIds :
            StatusOf(id) \in Terminal =>
                \/ StatusOf(id)' = StatusOf(id)
                \/ lastOp'.op \in {"manual", "delete"} /\ lastOp'.id = id]_vars

C9_Witness ==
    /\ lastOp.op = "pick"
    /\ \E k, p \in DOMAIN items :
          /\ k < p
          /\ items[k].status \in Terminal
          /\ items[p].id = lastOp.id
          /\ items[p].status = "GENERATING"

\* C10: every job starts in PENDING and every change of a job's status is one
\* of PENDING->GENERATING, GENERATING->SUCCESS, GENERATING->ERROR,
\* SUCCESS->GENERATING, ERROR->GENERATING.
C10_Transitions ==
    [][/\ \A id \in Ids(items) \cap Ids(items') :
            \/ StatusOf(id)' = StatusOf(id)
            \/ <<StatusOf(id), StatusOf(id)'>> \in
                 {<<"PENDING", "GENERATING">>, <<"GENERATING", "SUCCESS">>,
                  <<"GENERATING", "ERROR">>, <<"SUCCESS", "GENERATING">>,
                  <<"ERROR", "GENERATING">>}
       /\ \A id \in Ids(items') \ Ids(items) : StatusOf(id)' = "PENDING"]_vars

\* number of generateSpeech calls in flight for job id
CallsFor(id) ==
    LET S == {c \in BagToSet(inflight) : c.id = id}
        RECURSIVE Sum(_)
        Sum(T) == IF T = {} THEN 0
                  ELSE LET c == CHOOSE x \in T : TRUE
                       IN CopiesIn(c, inflight) + Sum(T \ {c})
    IN Sum(S)

\* C11: with handleGenerateSingle invocable for any id of the list, at most
\* one generateSpeech call is in flight for any job at any time.
C11_OneCallPerJob == \A id \in JobIds : CallsFor(id) <= 1

\* the last step was a manual trigger or the completion of a manual call
ManualStep ==
    \/ lastOp.op = "manual"
    \/ lastOp.op \in {"resolve", "reject"} /\ lastOp.src = "manual"

ReadUint16(bytes, offset) == bytes[offset + 1] + 256 * bytes[offset + 2]

ReadUint32(bytes, offset) ==
    bytes[offset + 1] + 256 * bytes[offset + 2] + 65536 * bytes[offset + 3]
        + 16777216 * bytes[offset + 4]

\* the arguments are representable: channels in 16 bits, rate in 32 bits
WavInRange ==
    /\ wav.numChannels \in 1..65535
    /\ wav.sampleRate \in 1..2147483647

\* C13: for every pcmData and in-range sample rate and channel count the
\* result has 44 + len bytes, its header reads back the channel count, the
\* sample rate and the data size, and bytes 44.. are pcmData.
C13_RoundTrip ==
    (wav.pc = "done" /\ WavInRange) =>
        /\ Len(wav.out) = 44 + Len(wav.pcmData)
        /\ ReadUint16(wav.out, 22) = wav.numChannels
        /\ ReadUint32(wav.out, 24) = wav.sampleRate
        /\ ReadUint32(wav.out, 40) = Len(wav.pcmData)
        /\ SubSeq(wav.out, 45, Len(wav.out)) = wav.pcmData

C13_Witness ==
    /\ wav.pc = "done"
    /\ wav.numChannels = 65535
    /\ wav.sampleRate = 2147483647
    /\ Len(wav.pcmData) = 3
    /\ wav.pcmData[3] = 255
    /\ SubSeq(wav.out, 45, 47) = wav.pcmData

\* the header field of `width` bytes at `offset` holds the number v untruncated
FieldIs(offset, width, v) ==
    SubSeq(wav.out, offset + 1, offset + width) \o [i \in 1..(8 - width) |-> 0] = v

\* the four characters at `offset`
TagIs(offset, str) ==
    SubSeq(wav.out, offset + 1, offset + 4) = [i \in 1..4 |-> CharCodeAt(str[i])]

\* C14: for positive sampleRate and channelCount the header holds every field
\* of the layout with its untruncated value.
C14_HeaderLayout ==
    (wav.pc = "done" /\ wav.sampleRate > 0 /\ wav.numChannels > 0) =>
        /\ TagIs(0, <<"R", "I", "F", "F">>)
        /\ FieldIs(4, 4, Num(36 + Len(wav.pcmData)))
        /\ TagIs(8, <<"W", "A", "V", "E">>)
        /\ TagIs(12, <<"f", "m", "t", " ">>)
        /\ FieldIs(16, 4, Num(16))
        /\ FieldIs(20, 2, Num(1))
        /\ FieldIs(22, 2, Num(wav.numChannels))
        /\ FieldIs(24, 4, Num(wav.sampleRate))
        /\ FieldIs(28, 4, Times(Num(wav.sampleRate),
                                Times(Num(wav.numChannels), Num(2))))
        /\ FieldIs(32, 2, Times(Num(wav.numChannels), Num(2)))
        /\ FieldIs(34, 2, Num(16))
        /\ TagIs(36, <<"d", "a", "t", "a">>)
        /\ FieldIs(40, 4, Num(Len(wav.pcmData)))

\* C16: a call with a zero or negative sample rate or channel count is
\* rejected; it returns no bytes.
C16_RejectsNonPositive ==
    (wav.pc = "done" /\ (wav.sampleRate <= 0 \/ wav.numChannels <= 0)) =>
        wav.out = <<>>

\* the job's style instruction is present (non-blank)
StylePresent(item) ==
    /\ item.systemInstruction # NoInstruction
    /\ ~IsBlank(item.systemInstruction)

\* C17: the text sent for a job is its systemInstruction, one newline and its
\* text when the instruction is present, and its text alone otherwise; voice
\* and model are the job's, which are the form's selection; the audio is
\* encoded with sample rate 24000 and 1 channel.
C17_PromptAndEncoding ==
    /\ prompt.pc \in {"requested", "encoded"} =>
          /\ prompt.request.text =
                IF StylePresent(prompt.item)
                THEN prompt.item.systemInstruction \o <<"\n">> \o prompt.item.text
                ELSE prompt.item.text
          /\ prompt.request.voiceName = prompt.item.voice
          /\ prompt.request.model = prompt.item.model
          /\ prompt.item.voice = prompt.form.selectedVoice
          /\ prompt.item.model = prompt.form.selectedModel
    /\ prompt.pc = "encoded" =>
          /\ ReadUint32(prompt.blob, 24) = 24000
          /\ ReadUint16(prompt.blob, 22) = 1

C17_Witness ==
    /\ prompt.pc = "encoded"
    /\ prompt.form.systemInstruction = <<" ", "c", " ">>
    /\ prompt.form.text = <<" ", "h", "i", " ">>
    /\ prompt.request.text = <<"c", "\n", "h", "i">>
    /\ prompt.request.voiceName = "Puck"
    /\ prompt.request.model = "gemini-2.5-pro-preview-tts"
    /\ Len(prompt.blob) = 45

\* the fields of a job no status transition writes
Payload(item) ==
    [id |-> item.id, text |-> item.text, voice |-> item.voice,
     model |-> item.model, systemInstruction |-> item.systemInstruction,
     label |-> item.label, createdAt |-> item.createdAt]

\* the ids of the list, in list order
IdSeq(its) == [k \in DOMAIN its |-> its[k].id]

\* C18: a pick, manual trigger, success or failure keeps the ids of the list
\* and their order, keeps id, text, voice, model, systemInstruction, label and
\* createdAt of the affected job and the whole record of every other job; the
\* set of jobs changes only by handleDelete, which removes one, and by
\* handleAddToQueue, which adds one in front.
C18_Frame ==
    [][/\ lastOp'.op \in {"pick", "manual", "resolve", "reject"} =>
            /\ IdSeq(items') = IdSeq(items)
            /\ \A k \in DOMAIN items :
                 /\ Payload(items'[k]) = Payload(items[k])
                 /\ items[k].id # lastOp'.id => items'[k] = items[k]
       /\ IdSeq(items') # IdSeq(items) =>
            \/ /\ lastOp'.op = "delete"
               /\ lastOp'.id \in Ids(items)
               /\ items' = RemoveItem(items, lastOp'.id)
            \/ /\ lastOp'.op = "add"
               /\ Len(items') = Len(items) + 1
               /\ Tail(items') = items]_vars

C18_Witness ==
    /\ lastOp.op = "reject"
    /\ lastOp.src = "manual"
    /\ Len(items) = 2
    /\ items[2].id = lastOp.id
    /\ items[2].status = "ERROR"
    /\ items[2].text = <<"h", "i">>
    /\ items[2].systemInstruction = <<"c">>
    /\ items[2].label = <<"x">>
    /\ items[1].status = "SUCCESS"

\* C19: handleAddToQueue with non-blank text puts exactly one new job in front
\* of the list, PENDING, without audioUrl and error, with an id no job of the
\* list has; with blank text it changes nothing.  Every job of the list has
\* non-empty text and the ids of the list are pairwise distinct.
C19_Enqueue ==
    /\ [][/\ lastOp'.op = "add" =>
               /\ Len(items') = Len(items) + 1
               /\ Tail(items') = items
               /\ Head(items').status = "PENDING"
               /\ Head(items').audioUrl = NoUrl
               /\ Head(items').error = NoError
               /\ Head(items').text # <<>>
               /\ Head(items').id \notin Ids(items)
          /\ lastOp'.op = "addBlank" =>
               UNCHANGED <<items, isProcessing, userApiKey, inflight, thrown,
                           effectDue, nextId, revokeCount, manualCount>>]_vars
    /\ [](\A k \in DOMAIN items :
            /\ items[k].text # <<>>
            /\ \A m \in DOMAIN items : items[m].id = items[k].id => m = k)

C19_Witness ==
    /\ lastOp.op = "addBlank"
    /\ Len(items) = 2
    /\ items[1].id # items[2].id
    /\ items[1].status = "PENDING"
    /\ items[1].text = <<"h", "i">>

\* C20: once Home is unmounted, the object URL of every job that held one at
\* that moment has been released.
C20_TeardownReleases ==
    ~mounted =>
        \A k \in DOMAIN items :
            items[k].audioUrl # NoUrl => revokeCount[items[k].audioUrl] >= 1

\* no Settings handler awaits a request
KeysQuiet == \A s \in 1..MaxCalls : keys.calls[s] = NoKeyCall

\* the step is the second request of setActiveApiKey in slot s, successful
ActivateDone(s) ==
    /\ keys.calls[s].pc = "activate"
    /\ keys'.calls[s].pc = "load"

\* C21: each user has at most one key with is_active = true in every state
\* the Settings handlers and their requests can reach, the other user's key
\* is never touched, and when setActiveApiKey(k) succeeds for a stored key k,
\* k is the user's only active key.
C21_SingleActiveKey ==
    /\ [](/\ Cardinality(ActiveIds(keys.rows, TheUser)) <= 1
          /\ OtherRow \in keys.rows
          /\ RowsOf(keys.rows, OtherUser) = {OtherRow})
    /\ [][\A s \in 1..MaxCalls :
            (/\ ActivateDone(s)
             /\ \E r \in RowsOf(keys'.rows, TheUser) : r.id = keys.calls[s].id)
                => ActiveIds(keys'.rows, TheUser) = {keys.calls[s].id}]_vars

C21_Witness ==
    /\ keys.last = KeyOp("setActive", 2, TRUE, {1})
    /\ Cardinality(RowsOf(keys.rows, TheUser)) = 2
    /\ ActiveIds(keys.rows, TheUser) = {2}

\* job id is in ERROR with the message of the missing key
NoKeyError(id) ==
    /\ StatusOf(id) = "ERROR"
    /\ ItemOf(items, id).error = "No API key configured"

\* C22: with userApiKey null, generateSpeech is never called; a pick and a
\* manual trigger set the job GENERATING and throw, and the catch block sets
\* it to ERROR with 'No API key configured'.  Once startQueue has set the
\* flag every PENDING job reaches that ERROR, and the flag is cleared with
\* no job left PENDING.
C22_NoKeyFailure ==
    /\ [](userApiKey = NoKey /\ inflight = EmptyBag)
    /\ [][\A id \in JobIds :
            /\ (lastOp'.op \in {"pick", "manual"} /\ lastOp'.id = id) =>
                   /\ StatusOf(id)' = "GENERATING"
                   /\ thrown'.id = id
            /\ (thrown.id = id /\ thrown' = NoCall) => NoKeyError(id)']_vars
    /\ \A id \in JobIds :
          (isProcessing /\ StatusOf(id) = "PENDING") ~> NoKeyError(id)
    /\ isProcessing ~> (~isProcessing /\ PendingCount = 0)

C22_Witness ==
    /\ userApiKey = NoKey
    /\ Len(items) = 2
    /\ NoKeyError(1)
    /\ NoKeyError(2)
    /\ manualCount = 1
    /\ lastOp.op = "reject"
    /\ lastOp.src = "manual"
    /\ ~isProcessing

\* C23: a job that is GENERATING, picked by the processor or triggered by
\* hand from PENDING, SUCCESS or ERROR, later is SUCCESS or ERROR or has been
\* deleted, when every call settles.
C23_GeneratingEnds ==
    \A id \in JobIds :
        (StatusOf(id) = "GENERATING") ~>
            (StatusOf(id) \in Terminal \/ StatusOf(id) = "REMOVED")

C23_Witness ==
    /\ lastOp.op = "reject"
    /\ lastOp.src = "manual"
    /\ lastOp.item.status = "SUCCESS"
    /\ StatusOf(lastOp.id) = "ERROR"
    /\ \E k \in DOMAIN items : items[k].id # lastOp.id /\ items[k].status = "SUCCESS"

\* the classes of parseErrorMessage in their order: the tokens looked for in
\* the text as it is, those looked for in its lower-case form, and the text shown
ErrorClasses ==
    <<[exact |-> {<<"4", "2", "9">>, <<"R", "E", "S", "O", "U", "R", "C", "E", "_", "E", "X", "H", "A", "U", "S", "T", "E", "D">>},
       lower |-> {<<"q", "u", "o", "t", "a">>, <<"r", "a", "t", "e", " ", "l", "i", "m", "i", "t">>}, text |-> RateLimitText],
      [exact |-> {}, lower |-> {<<"a", "p", "i", " ", "k", "e", "y">>, <<"a", "u", "t", "h", "e", "n", "t", "i", "c", "a", "t", "i", "o", "n">>},
       text |-> ApiKeyText],
      [exact |-> {<<"4", "0", "4">>}, lower |-> {<<"n", "o", "t", " ", "f", "o", "u", "n", "d">>}, text |-> ModelText],
      [exact |-> {}, lower |-> {<<"a", "u", "d", "i", "o">>, <<"m", "o", "d", "a", "l", "i", "t", "y">>}, text |-> AudioText],
      [exact |-> {}, lower |-> {<<"n", "e", "t", "w", "o", "r", "k">>, <<"f", "e", "t", "c", "h">>}, text |-> NetworkText]>>

\* the message belongs to class c
InClass(c, error) ==
    \/ \E t \in ErrorClasses[c].exact : Contains(error, t)
    \/ \E t \in ErrorClasses[c].lower : Contains(ToLowerCase(error), t)

\* the classes the message belongs to
ClassesOf(error) == {c \in DOMAIN ErrorClasses : InClass(c, error)}

\* C24: the text shown for a stored error is that of the first class, in the
\* order rate limit, API key, model, audio, network, the message belongs to;
\* with no class it is the generic text for more than 100 characters and the
\* message itself otherwise.  Rendering leaves the item's error and status as
\* they are and offers Generate Now whatever the class.
C24_ErrorPriority ==
    /\ [](view.pc = "shown" =>
            LET error == IF view.item.error = <<>> THEN <<"G", "e", "n", "e", "r", "a", "t", "i", "o", "n", " ", "f", "a", "i", "l", "e", "d">>
                         ELSE view.item.error
                cs == ClassesOf(error)
            IN /\ cs # {} =>
                    view.shown = ErrorClasses[CHOOSE c \in cs :
                                                \A d \in cs : c <= d].text
               /\ (cs = {} /\ Len(error) > 100) => view.shown = GenericText
               /\ (cs = {} /\ Len(error) <= 100) => view.shown = error
               /\ view.button)
    /\ [][view'.item = view.item]_vars

C24_Witness ==
    /\ view.pc = "shown"
    /\ Cardinality(ClassesOf(view.item.error)) = 2
    /\ 1 \in ClassesOf(view.item.error)
    /\ 2 \in ClassesOf(view.item.error)
    /\ view.shown = RateLimitText

\* the URL.createObjectURL results that no job of the list holds and that
\* were never passed to URL.revokeObjectURL
LeakedUrls ==
    {u \in 1..UrlsCreated :
        /\ revokeCount[u] = 0
        /\ \A k \in DOMAIN items : items[k].audioUrl # u}

\* C25: every object URL created so far is the audioUrl of a job of the list
\* or has been released, and no URL has been released more than once.
C25_NoUrlLeak ==
    /\ LeakedUrls = {}
    /\ \A u \in 1..UrlsCreated : revokeCount[u] <= 1

\* C26: the manual trigger runs only for a job whose view renders a button,
\* that is a job that is not GENERATING, and then no job ever has more than
\* one generateSpeech call started and not yet settled, whichever path
\* started it.
C26_ButtonGuardsCalls ==
    /\ [](\A id \in JobIds :
            /\ CallsFor(id) + (IF thrown.id = id THEN 1 ELSE 0) <= 1
            /\ CallsFor(id) = 1 => StatusOf(id) \in {"GENERATING", "REMOVED"})
    /\ [][\A id \in JobIds :
            (lastOp'.op = "manual" /\ lastOp'.id = id)
                => (StatusOf(id) \in ItemStatus \ {"GENERATING"}
                    /\ CallsFor(id) = 0)]_vars

C26_Witness ==
    /\ lastOp.op = "manual"
    /\ lastOp.item.status = "ERROR"
    /\ CallsFor(lastOp.id) = 1
    /\ \E id \in JobIds : id # lastOp.id /\ CallsFor(id) = 1
                          /\ \E c \in BagToSet(inflight) : c.id = id /\ c.src = "auto"

\* a generateSpeech call started by processQueue has not settled yet
AutoInFlight == \E c \in BagToSet(inflight) : c.src = "auto"

\* C27: whenever isProcessing is false, no generateSpeech call started by the
\* automatic processor is in flight.
C27_FlagCoversAutoCalls == ~isProcessing => ~AutoInFlight

C29_SetActiveAllOrNothing ==
    [][\A s \in 1..MaxCalls :
        (keys.calls[s].pc = "activate" /\ keys'.calls[s].pc # "activate") =>
            LET before == keys.calls[s].before
                after == ActiveIds(keys'.rows, TheUser)
            IN /\ after = {keys.calls[s].id} \/ after = before
               /\ before # {} => after # {}]_vars

\* C30: whenever no Settings handler is running and the user has at least
\* one stored key, exactly one of the user's keys is active and
\* getActiveApiKey returns a key.
C30_StoredImpliesActive ==
    (KeysQuiet /\ RowsOf(keys.rows, TheUser) # {}) =>
        /\ Cardinality(ActiveIds(keys.rows, TheUser)) = 1
        /\ GetActiveApiKey(keys.rows, TheUser) # 0
====
